---- MODULE Spec2Model ----
(***************************************************************************)
(* Model of src/Fl_Image_Surface.cxx (FLTK): the Fl_Image_Surface class    *)
(* (image surfaces that own or borrow an Fl_Offscreen buffer), and the     *)
(* fl_XXX_offscreen() functions built on the static table                  *)
(* offscreen_api_surface[], and the driver's pixel code: copy_with_mask()  *)
(* and RGB3_to_RGB1().                                                     *)
(*                                                                         *)
(* Pointers are modelled as small integers: Fl_Image_Surface objects live  *)
(* at addresses SurfIds, their platform drivers at addresses DrvIds, and   *)
(* Fl_Offscreen values are taken from Handles.  An address or a handle is  *)
(* reusable once its object is freed, and the allocator may hand out any   *)
(* free one.                                                               *)
(***************************************************************************)
EXTENDS Integers, Sequences, FiniteSets, TLC

\* ---------------------------------------------------------------- bounds
MaxSurf == 2
MaxDepth == 2

\* ------------------------------------------------------------- constants
NULL == 0
Display == -1
Uninit == -2
Free == -1
SlotIncrement == 20

SurfIds == 1..MaxSurf
DrvIds == 1..(MaxSurf + 1)
Handles == 1..(MaxSurf + 1)
Scales == {1, 2}
Colors == {0, 1}
Sizes == {<<2, 3>>}

NoDriver == [width |-> 0, height |-> 0, offscreen |-> 0, external |-> FALSE, pw |-> 0, ph |-> 0]
NoImg == [data_w |-> 0, data_h |-> 0, w |-> 0, h |-> 0, pix |-> 0]

VARIABLES
  offscreen_api_surface,
  count_offscreens,
  max,
  platform_surface,
  drivers,
  buf,
  surface_,
  surface_stack,
  scale,
  last,
  mask,
  dib_dst,
  dib_src,
  line_size,
  bottom_to_top,
  rgb3,
  target,
  rgb1,
  pixmap,
  shape_data_

vars == <<offscreen_api_surface, count_offscreens, max, platform_surface, drivers, buf, surface_, surface_stack, scale, last,
          mask, dib_dst, dib_src, line_size, bottom_to_top, rgb3, target, rgb1, pixmap, shape_data_>>

\* the arguments of copy_with_mask(), those and the result of RGB3_to_RGB1(),
\* and the pixels and pending mask of one image surface
compositor == <<mask, dib_dst, dib_src, line_size, bottom_to_top>>
reducer == <<rgb3, target, rgb1>>
masking == <<pixmap, shape_data_>>
pixels == <<mask, dib_dst, dib_src, line_size, bottom_to_top, rgb3, target, rgb1, pixmap, shape_data_>>

registry == <<offscreen_api_surface, count_offscreens, max>>
heap == <<platform_surface, drivers, buf>>
activation == <<surface_, surface_stack>>

\* ------------------------------------------------------------- allocator
\* Objects are allocated first-fit (the lowest free address); the platform may
\* give any free handle as a new Fl_Offscreen.
Lowest(S) == {x \in S : \A y \in S : x <= y}
FreeSurf == Lowest({s \in SurfIds : platform_surface[s] = NULL})
FreeDrvIn(D) == Lowest({d \in DrvIds : D[d] = NoDriver})
FreeHandleIn(B) == {h \in Handles : B[h] = Free}

\* -------------------------------------------------- Fl_Image_Surface_Driver
\* The platform driver made by newImageSurfaceDriver(w, h, high_res, off): it
\* wraps off when given one, else it allocates the buffer fresh, sized in
\* pixels by the current scale factor when high_res is set.
newImageSurfaceDriver(w, h, high_res, off, fresh) ==
  [width |-> w, height |-> h,
   offscreen |-> IF off # 0 THEN off ELSE fresh,
   external |-> off # 0,
   pw |-> IF off = 0 /\ high_res # 0 THEN w * scale ELSE w,
   ph |-> IF off = 0 /\ high_res # 0 THEN h * scale ELSE h]

\* delete platform_surface: the driver is freed, and the buffer it owns with it
delete_driver(H, d) ==
  [platform_surface |-> H.platform_surface,
   drivers |-> [H.drivers EXCEPT ![d] = NoDriver],
   buf |-> IF H.drivers[d].external \/ H.drivers[d].offscreen = 0
           THEN H.buf
           ELSE [H.buf EXCEPT ![H.drivers[d].offscreen] = Free]]

\* the driver's pixel extraction: the buffer's content at its pixel size
driver_image(H, d) ==
  [data_w |-> H.drivers[d].pw, data_h |-> H.drivers[d].ph,
   w |-> H.drivers[d].pw, h |-> H.drivers[d].ph,
   pix |-> IF H.drivers[d].offscreen = 0 THEN 0 ELSE H.buf[H.drivers[d].offscreen]]

\* Fl_Image::scale(width, height, 1, 1)
Fl_Image_scale(img, width, height) == [img EXCEPT !.w = width, !.h = height]

\* ------------------------------------------------------- Fl_Surface_Device
surface(A) == A.surface_

push_current(A, new_current) ==
  [surface_ |-> new_current, surface_stack |-> Append(A.surface_stack, A.surface_)]

pop_current(A) ==
  IF Len(A.surface_stack) > 0
  THEN [surface_ |-> A.surface_stack[Len(A.surface_stack)],
        surface_stack |-> SubSeq(A.surface_stack, 1, Len(A.surface_stack) - 1)]
  ELSE A

\* the driver's end_current(): the surface stops being the drawing destination
end_current(A) == pop_current(A)

\* --------------------------------------------------------- Fl_Image_Surface
Heap == [platform_surface |-> platform_surface, drivers |-> drivers, buf |-> buf]
Act == [surface_ |-> surface_, surface_stack |-> surface_stack]

\* Fl_Image_Surface::Fl_Image_Surface(w, h, high_res, off), at address s
Fl_Image_Surface_ctor(H, s, w, h, high_res, off, d, fresh, c) ==
  [platform_surface |-> [H.platform_surface EXCEPT ![s] = d],
   drivers |-> [H.drivers EXCEPT ![d] = newImageSurfaceDriver(w, h, high_res, off, fresh)],
   buf |-> IF off = 0 THEN [H.buf EXCEPT ![fresh] = c] ELSE H.buf]

is_current(H, A, s) == surface(A) = H.platform_surface[s]

offscreen(H, s) ==
  IF H.platform_surface[s] # NULL THEN H.drivers[H.platform_surface[s]].offscreen ELSE 0

\* a destructor that does not look whether the surface is current
Fl_Image_Surface_dtor_noend(H, A, s) ==
  LET H1 == delete_driver(H, H.platform_surface[s])
  IN  [H |-> [H1 EXCEPT !.platform_surface[s] = NULL], A |-> A]

\* a destructor that does not delete the driver
Fl_Image_Surface_dtor_leak(H, A, s) ==
  LET A1 == IF is_current(H, A, s) THEN end_current(A) ELSE A
  IN  [H |-> [H EXCEPT !.platform_surface[s] = NULL], A |-> A1]

\* Fl_Image_Surface::~Fl_Image_Surface(): the pair <<heap, activation>> after it
Fl_Image_Surface_dtor(H, A, s) ==
  LET A1 == IF is_current(H, A, s) THEN end_current(A) ELSE A
      H1 == delete_driver(H, H.platform_surface[s])
  IN  [H |-> [H1 EXCEPT !.platform_surface[s] = NULL], A |-> A1]

\* ------------------------------------------------- fl_XXX_offscreen() table
\* find_slot(): the rank it returns and the table it leaves
find_slot_append ==
  [rank |-> count_offscreens,
   count_offscreens |-> count_offscreens + 1,
   max |-> IF count_offscreens >= max THEN max + SlotIncrement ELSE max,
   offscreen_api_surface |->
     IF count_offscreens >= max
     THEN [i \in 0..(max + SlotIncrement - 1) |->
             IF i < max THEN offscreen_api_surface[i] ELSE Uninit]
     ELSE offscreen_api_surface]

find_slot_first ==
  [rank |-> 0,
   count_offscreens |-> IF count_offscreens = 0 THEN 1 ELSE count_offscreens,
   max |-> IF count_offscreens >= max THEN max + SlotIncrement ELSE max,
   offscreen_api_surface |->
     IF count_offscreens >= max
     THEN [i \in 0..(max + SlotIncrement - 1) |->
             IF i < max THEN offscreen_api_surface[i] ELSE Uninit]
     ELSE offscreen_api_surface]

\* a find_slot() that makes room for one more slot at a time
find_slot_step ==
  IF \E num \in 0..(count_offscreens - 1) : offscreen_api_surface[num] = NULL
  THEN [rank |-> CHOOSE num \in 0..(count_offscreens - 1) :
                   /\ offscreen_api_surface[num] = NULL
                   /\ \A k \in 0..(num - 1) : offscreen_api_surface[k] # NULL,
        count_offscreens |-> count_offscreens,
        max |-> max,
        offscreen_api_surface |-> offscreen_api_surface]
  ELSE [rank |-> count_offscreens,
        count_offscreens |-> count_offscreens + 1,
        max |-> IF count_offscreens >= max THEN max + 1 ELSE max,
        offscreen_api_surface |->
          IF count_offscreens >= max
          THEN [i \in 0..max |->
                  IF i < max THEN offscreen_api_surface[i] ELSE Uninit]
          ELSE offscreen_api_surface]

find_slot ==
  IF \E num \in 0..(count_offscreens - 1) : offscreen_api_surface[num] = NULL
  THEN [rank |-> CHOOSE num \in 0..(count_offscreens - 1) :
                   /\ offscreen_api_surface[num] = NULL
                   /\ \A k \in 0..(num - 1) : offscreen_api_surface[k] # NULL,
        count_offscreens |-> count_offscreens,
        max |-> max,
        offscreen_api_surface |-> offscreen_api_surface]
  ELSE [rank |-> count_offscreens,
        count_offscreens |-> count_offscreens + 1,
        max |-> IF count_offscreens >= max THEN max + SlotIncrement ELSE max,
        offscreen_api_surface |->
          IF count_offscreens >= max
          THEN [i \in 0..(max + SlotIncrement - 1) |->
                  IF i < max THEN offscreen_api_surface[i] ELSE Uninit]
          ELSE offscreen_api_surface]

\* the loop shared by fl_delete_offscreen, fl_begin_offscreen and
\* fl_rescale_offscreen: the first slot i < count_offscreens that is not null and
\* whose surface's offscreen() is ctx, or count_offscreens when there is none
lookup(ctx) ==
  IF \E i \in 0..(count_offscreens - 1) :
       offscreen_api_surface[i] # NULL /\ offscreen(Heap, offscreen_api_surface[i]) = ctx
  THEN CHOOSE i \in 0..(count_offscreens - 1) :
         /\ offscreen_api_surface[i] # NULL
         /\ offscreen(Heap, offscreen_api_surface[i]) = ctx
         /\ \A k \in 0..(i - 1) :
              ~(offscreen_api_surface[k] # NULL /\ offscreen(Heap, offscreen_api_surface[k]) = ctx)
  ELSE count_offscreens

\* the surface the table holds for ctx, NULL when the lookup finds none
Owner(ctx) ==
  IF lookup(ctx) < count_offscreens THEN offscreen_api_surface[lookup(ctx)] ELSE NULL

\* what is recorded of the last call: the function, the Fl_Image_Surface it
\* acted on (NULL for none), the slot of the table it used (-1 for none), the
\* Fl_Offscreen it returned or wrote back, the image it returned, and whether
\* the surface was the current drawing surface when the call was made
Op(op, obj, rank, ret, img) ==
  [op |-> op, obj |-> obj, rank |-> rank, ret |-> ret, img |-> img,
   cur |-> IF obj # NULL /\ platform_surface[obj] # NULL THEN is_current(Heap, Act, obj) ELSE FALSE]

fl_create_offscreen(w, h, s, d, fresh, c) ==
  LET fs == find_slot
      rank == fs.rank
      H1 == Fl_Image_Surface_ctor(Heap, s, w, h, 1, 0, d, fresh, c)
  IN  /\ count_offscreens' = fs.count_offscreens
      /\ max' = fs.max
      /\ offscreen_api_surface' = [fs.offscreen_api_surface EXCEPT ![rank] = s]
      /\ platform_surface' = H1.platform_surface
      /\ drivers' = H1.drivers
      /\ buf' = H1.buf
      /\ last' = Op("fl_create_offscreen", s, rank, offscreen(H1, s), NoImg)
      /\ UNCHANGED pixels
      /\ UNCHANGED <<surface_, surface_stack, scale>>

\* a delete that destroys the surface and leaves its pointer in the table
fl_delete_offscreen_keep(ctx) ==
  LET i == lookup(ctx)
  IN  IF ctx = 0 \/ i >= count_offscreens
      THEN /\ last' = Op("fl_delete_offscreen", NULL, -1, 0, NoImg)
           /\ UNCHANGED pixels
           /\ UNCHANGED <<registry, heap, activation, scale>>
      ELSE LET R == Fl_Image_Surface_dtor(Heap, Act, offscreen_api_surface[i])
           IN  /\ platform_surface' = R.H.platform_surface
               /\ drivers' = R.H.drivers
               /\ buf' = R.H.buf
               /\ surface_' = R.A.surface_
               /\ surface_stack' = R.A.surface_stack
               /\ last' = Op("fl_delete_offscreen", offscreen_api_surface[i], i, 0, NoImg)
               /\ UNCHANGED pixels
               /\ UNCHANGED <<registry, scale>>

\* a delete that does not compare handles: it destroys the first live surface
fl_delete_offscreen_any(ctx) ==
  LET live == {k \in 0..(count_offscreens - 1) : offscreen_api_surface[k] # NULL}
      i == IF live = {} THEN count_offscreens ELSE CHOOSE k \in live : \A m \in live : k <= m
  IN  IF ctx = 0 \/ i >= count_offscreens
      THEN /\ last' = Op("fl_delete_offscreen", NULL, -1, 0, NoImg)
           /\ UNCHANGED pixels
           /\ UNCHANGED <<registry, heap, activation, scale>>
      ELSE LET R == Fl_Image_Surface_dtor(Heap, Act, offscreen_api_surface[i])
           IN  /\ platform_surface' = R.H.platform_surface
               /\ drivers' = R.H.drivers
               /\ buf' = R.H.buf
               /\ surface_' = R.A.surface_
               /\ surface_stack' = R.A.surface_stack
               /\ offscreen_api_surface' = [offscreen_api_surface EXCEPT ![i] = NULL]
               /\ last' = Op("fl_delete_offscreen", offscreen_api_surface[i], i, 0, NoImg)
               /\ UNCHANGED pixels
               /\ UNCHANGED <<count_offscreens, max, scale>>

fl_delete_offscreen(ctx) ==
  LET i == lookup(ctx)
  IN  IF ctx = 0 \/ i >= count_offscreens
      THEN /\ last' = Op("fl_delete_offscreen", NULL, -1, 0, NoImg)
           /\ UNCHANGED pixels
           /\ UNCHANGED <<registry, heap, activation, scale>>
      ELSE LET R == Fl_Image_Surface_dtor(Heap, Act, offscreen_api_surface[i])
           IN  /\ platform_surface' = R.H.platform_surface
               /\ drivers' = R.H.drivers
               /\ buf' = R.H.buf
               /\ surface_' = R.A.surface_
               /\ surface_stack' = R.A.surface_stack
               /\ offscreen_api_surface' = [offscreen_api_surface EXCEPT ![i] = NULL]
               /\ last' = Op("fl_delete_offscreen", offscreen_api_surface[i], i, 0, NoImg)
               /\ UNCHANGED pixels
               /\ UNCHANGED <<count_offscreens, max, scale>>

\* a begin that makes the surface current without saving the previous one
fl_begin_offscreen_set(ctx) ==
  LET i == lookup(ctx)
  IN  /\ Len(surface_stack) < MaxDepth
      /\ IF i < count_offscreens
         THEN /\ surface_' = platform_surface[offscreen_api_surface[i]]
              /\ surface_stack' = surface_stack
              /\ last' = Op("fl_begin_offscreen", offscreen_api_surface[i], i, 0, NoImg)
              /\ UNCHANGED pixels
         ELSE /\ UNCHANGED activation
              /\ last' = Op("fl_begin_offscreen", NULL, -1, 0, NoImg)
              /\ UNCHANGED pixels
      /\ UNCHANGED <<registry, heap, scale>>

fl_begin_offscreen(ctx) ==
  LET i == lookup(ctx)
  IN  /\ Len(surface_stack) < MaxDepth
      /\ IF i < count_offscreens
         THEN LET A1 == push_current(Act, platform_surface[offscreen_api_surface[i]])
              IN  /\ surface_' = A1.surface_
                  /\ surface_stack' = A1.surface_stack
                  /\ last' = Op("fl_begin_offscreen", offscreen_api_surface[i], i, 0, NoImg)
                  /\ UNCHANGED pixels
         ELSE /\ UNCHANGED activation
              /\ last' = Op("fl_begin_offscreen", NULL, -1, 0, NoImg)
              /\ UNCHANGED pixels
      /\ UNCHANGED <<registry, heap, scale>>

\* fl_end_offscreen() is Fl_Surface_Device::pop_current(); the caller pairs it
\* with an earlier push
\* an end that makes the display the drawing surface whatever was saved
fl_end_offscreen_top ==
  /\ Len(surface_stack) > 0
  /\ surface_' = Display
  /\ surface_stack' = SubSeq(surface_stack, 1, Len(surface_stack) - 1)
  /\ last' = Op("fl_end_offscreen", NULL, -1, 0, NoImg)
  /\ UNCHANGED pixels
  /\ UNCHANGED <<registry, heap, scale>>

fl_end_offscreen ==
  LET A1 == pop_current(Act)
  IN  /\ Len(surface_stack) > 0
      /\ surface_' = A1.surface_
      /\ surface_stack' = A1.surface_stack
      /\ last' = Op("fl_end_offscreen", NULL, -1, 0, NoImg)
      /\ UNCHANGED pixels
      /\ UNCHANGED <<registry, heap, scale>>

\* an image() that pushes the surface and does not pop it
image_nopop(H, A, s) ==
  LET ps == H.platform_surface[s]
      need_push == surface(A) # ps
      A1 == IF need_push THEN push_current(A, ps) ELSE A
      img == driver_image(H, ps)
  IN  [A |-> A1, img |-> Fl_Image_scale(img, H.drivers[ps].width, H.drivers[ps].height)]

\* an image() that does not scale the image it returns
image_noscale(H, A, s) ==
  LET ps == H.platform_surface[s]
      need_push == surface(A) # ps
      A1 == IF need_push THEN push_current(A, ps) ELSE A
      img == driver_image(H, ps)
      A2 == IF need_push THEN pop_current(A1) ELSE A1
  IN  [A |-> A2, img |-> img]

\* Fl_Image_Surface::image(): the activation it leaves and the image it returns
image(H, A, s) ==
  LET ps == H.platform_surface[s]
      need_push == surface(A) # ps
      A1 == IF need_push THEN push_current(A, ps) ELSE A
      img == driver_image(H, ps)
      A2 == IF need_push THEN pop_current(A1) ELSE A1
  IN  [A |-> A2, img |-> Fl_Image_scale(img, H.drivers[ps].width, H.drivers[ps].height)]

\* Fl_Image_Surface_Driver::printable_rect()
printable_rect(H, s) ==
  [w |-> H.drivers[H.platform_surface[s]].width, h |-> H.drivers[H.platform_surface[s]].height]

\* a rescale() that makes the new driver for the pixel size of the old buffer
rescale_pixels(H, A, s, d, fresh) ==
  LET im == image(H, A, s)
      rgb == im.img
      H1 == delete_driver(H, H.platform_surface[s])
      H2 == [platform_surface |-> [H1.platform_surface EXCEPT ![s] = d],
             drivers |-> [H1.drivers EXCEPT ![d] = newImageSurfaceDriver(rgb.data_w, rgb.data_h, 1, 0, fresh)],
             buf |-> H1.buf]
      A2 == push_current(im.A, H2.platform_surface[s])
      H3 == [H2 EXCEPT !.buf[fresh] = rgb.pix]
      A3 == pop_current(A2)
  IN  [H |-> H3, A |-> A3]

\* a rescale() that frees the old buffer whoever owns it
rescale_free(H, A, s, d, fresh) ==
  LET im == image(H, A, s)
      rgb == im.img
      wh == printable_rect(H, s)
      old == offscreen(H, s)
      H1 == delete_driver(H, H.platform_surface[s])
      H2 == [platform_surface |-> [H1.platform_surface EXCEPT ![s] = d],
             drivers |-> [H1.drivers EXCEPT ![d] = newImageSurfaceDriver(wh.w, wh.h, 1, 0, fresh)],
             buf |-> IF old # 0 THEN [H1.buf EXCEPT ![old] = Free] ELSE H1.buf]
      A2 == push_current(im.A, H2.platform_surface[s])
      H3 == [H2 EXCEPT !.buf[fresh] = rgb.pix]
      A3 == pop_current(A2)
  IN  [H |-> H3, A |-> A3]

\* a rescale() that leaves the new driver current after drawing the image
rescale_nopop(H, A, s, d, fresh) ==
  LET im == image(H, A, s)
      rgb == im.img
      wh == printable_rect(H, s)
      H1 == delete_driver(H, H.platform_surface[s])
      H2 == [platform_surface |-> [H1.platform_surface EXCEPT ![s] = d],
             drivers |-> [H1.drivers EXCEPT ![d] = newImageSurfaceDriver(wh.w, wh.h, 1, 0, fresh)],
             buf |-> H1.buf]
      A2 == push_current(im.A, H2.platform_surface[s])
      H3 == [H2 EXCEPT !.buf[fresh] = rgb.pix]
  IN  [H |-> H3, A |-> A2]

\* Fl_Image_Surface::rescale(): the new driver is allocated at d and its buffer
\* at fresh, both free once the old driver is deleted
rescale(H, A, s, d, fresh) ==
  LET im == image(H, A, s)
      rgb == im.img
      wh == printable_rect(H, s)
      H1 == delete_driver(H, H.platform_surface[s])
      H2 == [platform_surface |-> [H1.platform_surface EXCEPT ![s] = d],
             drivers |-> [H1.drivers EXCEPT ![d] = newImageSurfaceDriver(wh.w, wh.h, 1, 0, fresh)],
             buf |-> H1.buf]
      A2 == push_current(im.A, H2.platform_surface[s])
      H3 == [H2 EXCEPT !.buf[fresh] = rgb.pix]
      A3 == pop_current(A2)
  IN  [H |-> H3, A |-> A3]

\* what the allocator may return to rescale() for surface s (0 for no surface)
RescaleDrv(s) ==
  IF s = NULL THEN {0} ELSE FreeDrvIn(delete_driver(Heap, platform_surface[s]).drivers)
RescaleHandles(s) ==
  IF s = NULL THEN {0} ELSE FreeHandleIn(delete_driver(Heap, platform_surface[s]).buf)

\* a rescale that leaves the caller's ctx as it was
fl_rescale_offscreen_stale(ctx, d, fresh) ==
  LET i == lookup(ctx)
  IN  IF i >= count_offscreens
      THEN /\ last' = Op("fl_rescale_offscreen", NULL, -1, ctx, NoImg)
           /\ UNCHANGED pixels
           /\ UNCHANGED <<registry, heap, activation, scale>>
      ELSE LET s == offscreen_api_surface[i]
               R == rescale(Heap, Act, s, d, fresh)
           IN  /\ platform_surface' = R.H.platform_surface
               /\ drivers' = R.H.drivers
               /\ buf' = R.H.buf
               /\ surface_' = R.A.surface_
               /\ surface_stack' = R.A.surface_stack
               /\ last' = Op("fl_rescale_offscreen", s, i, ctx, NoImg)
               /\ UNCHANGED pixels
               /\ UNCHANGED <<registry, scale>>

fl_rescale_offscreen(ctx, d, fresh) ==
  LET i == lookup(ctx)
  IN  IF i >= count_offscreens
      THEN /\ last' = Op("fl_rescale_offscreen", NULL, -1, ctx, NoImg)
           /\ UNCHANGED pixels
           /\ UNCHANGED <<registry, heap, activation, scale>>
      ELSE LET s == offscreen_api_surface[i]
               R == rescale(Heap, Act, s, d, fresh)
           IN  /\ platform_surface' = R.H.platform_surface
               /\ drivers' = R.H.drivers
               /\ buf' = R.H.buf
               /\ surface_' = R.A.surface_
               /\ surface_stack' = R.A.surface_stack
               /\ last' = Op("fl_rescale_offscreen", s, i, offscreen(R.H, s), NoImg)
               /\ UNCHANGED pixels
               /\ UNCHANGED <<registry, scale>>

\* ------------------------------------------------ the class used directly
InTable(s) == \E i \in 0..(count_offscreens - 1) : offscreen_api_surface[i] = s
Direct == {s \in SurfIds : platform_surface[s] # NULL /\ ~InTable(s)}

\* buffers the caller made with the platform's own calls and still owns
Wrapped(h) == \E d \in DrvIds : drivers[d] # NoDriver /\ drivers[d].offscreen = h
Owned(h) == \E d \in DrvIds : drivers[d] # NoDriver /\ drivers[d].offscreen = h /\ ~drivers[d].external
CallerBuffers == {h \in Handles : buf[h] # Free /\ ~Owned(h)}

new_Fl_Image_Surface(w, h, high_res, off, s, d, fresh, c) ==
  LET H1 == Fl_Image_Surface_ctor(Heap, s, w, h, high_res, off, d, fresh, c)
  IN  /\ platform_surface' = H1.platform_surface
      /\ drivers' = H1.drivers
      /\ buf' = H1.buf
      /\ last' = Op("new", s, -1, offscreen(H1, s), NoImg)
      /\ UNCHANGED pixels
      /\ UNCHANGED <<registry, activation, scale>>

delete_Fl_Image_Surface(s) ==
  LET R == Fl_Image_Surface_dtor(Heap, Act, s)
  IN  /\ platform_surface' = R.H.platform_surface
      /\ drivers' = R.H.drivers
      /\ buf' = R.H.buf
      /\ surface_' = R.A.surface_
      /\ surface_stack' = R.A.surface_stack
      /\ last' = Op("delete", s, -1, offscreen(Heap, s), NoImg)
      /\ UNCHANGED pixels
      /\ UNCHANGED <<registry, scale>>

Fl_Image_Surface_image(s) ==
  LET R == image(Heap, Act, s)
  IN  /\ surface_' = R.A.surface_
      /\ surface_stack' = R.A.surface_stack
      /\ last' = Op("image", s, -1, 0, R.img)
      /\ UNCHANGED pixels
      /\ UNCHANGED <<registry, heap, scale>>

Fl_Image_Surface_rescale(s, d, fresh) ==
  LET R == rescale(Heap, Act, s, d, fresh)
  IN  /\ platform_surface' = R.H.platform_surface
      /\ drivers' = R.H.drivers
      /\ buf' = R.H.buf
      /\ surface_' = R.A.surface_
      /\ surface_stack' = R.A.surface_stack
      /\ last' = Op("rescale", s, -1, offscreen(R.H, s), NoImg)
      /\ UNCHANGED pixels
      /\ UNCHANGED <<registry, scale>>

\* Fl_Image_Surface::get_offscreen_before_delete_(): the surface lets go of its
\* Fl_Offscreen, which the caller keeps
get_offscreen_before_delete_(H, s) ==
  [keep |-> H.drivers[H.platform_surface[s]].offscreen,
   H |-> [H EXCEPT !.drivers[H.platform_surface[s]].offscreen = 0]]

Fl_Image_Surface_get_offscreen_before_delete_(s) ==
  LET R == get_offscreen_before_delete_(Heap, s)
  IN  /\ R.keep # 0
      /\ drivers' = R.H.drivers
      /\ last' = Op("get_offscreen_before_delete_", s, -1, R.keep, NoImg)
      /\ UNCHANGED pixels
      /\ UNCHANGED <<registry, platform_surface, buf, activation, scale>>

Fl_Surface_Device_push_current(s) ==
  LET A1 == push_current(Act, platform_surface[s])
  IN  /\ Len(surface_stack) < MaxDepth
      /\ surface_' = A1.surface_
      /\ surface_stack' = A1.surface_stack
      /\ last' = Op("push_current", s, -1, 0, NoImg)
      /\ UNCHANGED pixels
      /\ UNCHANGED <<registry, heap, scale>>

\* ------------------------------------------------------------ environment
\* a drawing call that fills the current image surface with colour c
fl_rectf(c) ==
  /\ surface_ \in DrvIds
  /\ drivers[surface_] # NoDriver
  /\ drivers[surface_].offscreen # 0
  /\ buf[drivers[surface_].offscreen] # c
  /\ buf' = [buf EXCEPT ![drivers[surface_].offscreen] = c]
  /\ last' = Op("fl_rectf", NULL, -1, 0, NoImg)
  /\ UNCHANGED pixels
  /\ UNCHANGED <<registry, platform_surface, drivers, activation, scale>>

\* the GUI scale factor changes (Fl::screen_scale)
set_scale(f) ==
  /\ f # scale
  /\ scale' = f
  /\ last' = Op("set_scale", NULL, -1, 0, NoImg)
  /\ UNCHANGED pixels
  /\ UNCHANGED <<registry, heap, activation>>

\* the caller makes, and later frees, an offscreen buffer of its own
create_external(h, c) ==
  /\ buf[h] = Free
  /\ buf' = [buf EXCEPT ![h] = c]
  /\ last' = Op("create_external", NULL, -1, h, NoImg)
  /\ UNCHANGED pixels
  /\ UNCHANGED <<registry, platform_surface, drivers, activation, scale>>

free_external(h) ==
  /\ h \in CallerBuffers
  /\ ~Wrapped(h)
  /\ buf' = [buf EXCEPT ![h] = Free]
  /\ last' = Op("free_external", NULL, -1, 0, NoImg)
  /\ UNCHANGED pixels
  /\ UNCHANGED <<registry, platform_surface, drivers, activation, scale>>

\* ------------------------------------------------------------ pixel buffers
\* An Fl_RGB_Image: data_w x data_h pixels of d bytes each, rows ld bytes apart
\* (ld = 0: rows are packed, data_w * d bytes apart); array is 1-based here,
\* array[k + 1] being the byte at offset k.
NoRGB == [data_w |-> 0, data_h |-> 0, d |-> 0, ld |-> 0, array |-> <<>>]
NoShape == [mask |-> NoRGB, background |-> <<>>]

uchar(x) == x % 256

\* a copy_with_mask() that divides the weighted sum by 256
copy_with_mask_shift(m, dst, src, ls, btt) ==
  LET w == m.data_w
      h == m.data_h
  IN  [k \in 1..Len(dst) |->
         LET i == (k - 1) \div ls
             j == ((k - 1) % ls) \div 3
         IN  IF i < h /\ j < w
             THEN LET u == m.array[(IF btt THEN h - i - 1 ELSE i) * w + j + 1]
                      v == uchar(255 - u)
                  IN  uchar((dst[k] * v + src[k] * u) \div 256)
             ELSE dst[k]]

\* a copy_with_mask() that, bottom to top, walks the source rows backwards too
copy_with_mask_flip(m, dst, src, ls, btt) ==
  LET w == m.data_w
      h == m.data_h
  IN  [k \in 1..Len(dst) |->
         LET i == (k - 1) \div ls
             j == ((k - 1) % ls) \div 3
         IN  IF i < h /\ j < w
             THEN LET u == m.array[(IF btt THEN h - i - 1 ELSE i) * w + j + 1]
                      v == uchar(255 - u)
                      ks == IF btt THEN (h - i - 1) * ls + ((k - 1) % ls) + 1 ELSE k
                  IN  uchar((dst[k] * v + src[ks] * u) \div 255)
             ELSE dst[k]]

\* Fl_Image_Surface_Driver::copy_with_mask(mask, dib_dst, dib_src, line_size,
\* bottom_to_top): dib_dst after the call.  Row i of dst and src starts at
\* offset i * line_size; its first 3 * w bytes are mixed, the three bytes of
\* pixel j with the mask byte of column j in row i (or h-i-1, bottom to top).
copy_with_mask(m, dst, src, ls, btt) ==
  LET w == m.data_w
      h == m.data_h
  IN  [k \in 1..Len(dst) |->
         LET i == (k - 1) \div ls
             j == ((k - 1) % ls) \div 3
         IN  IF i < h /\ j < w
             THEN LET u == m.array[(IF btt THEN h - i - 1 ELSE i) * w + j + 1]
                      v == uchar(255 - u)
                  IN  uchar((dst[k] * v + src[k] * u) \div 255)
             ELSE dst[k]]

\* Fl_RGB_Image::copy(W, H): the image resampled to W x H by taking, for each
\* new pixel, the nearest source pixel; the copy's rows are packed
Fl_RGB_Image_copy(img, W, H) ==
  LET sld == IF img.ld = 0 THEN img.data_w * img.d ELSE img.ld
  IN  [data_w |-> W, data_h |-> H, d |-> img.d, ld |-> 0,
       array |-> [k \in 1..(W * H * img.d) |->
                    LET pxl == (k - 1) \div img.d
                        c == (k - 1) % img.d
                        sx == ((pxl % W) * img.data_w) \div W
                        sy == ((pxl \div W) * img.data_h) \div H
                    IN  img.array[sy * sld + sx * img.d + c + 1]]]

\* an RGB3_to_RGB1() that takes the source's rows to be packed
RGB3_to_RGB1_packed(img, W, H) ==
  LET need_copy == W # img.data_w \/ H # img.data_h
      src == IF need_copy THEN Fl_RGB_Image_copy(img, W, H) ELSE img
      ld == 3 * W
  IN  [data_w |-> W, data_h |-> H, d |-> 1, ld |-> 0,
       array |-> [k \in 1..(W * H) |->
                    LET i == (k - 1) \div W
                        j == (k - 1) % W
                        alpha == i * ld + 3 * j
                    IN  (src.array[alpha + 1] + src.array[alpha + 2] + src.array[alpha + 3]) \div 3]]

\* an RGB3_to_RGB1() that takes the red byte for the pixel's value
RGB3_to_RGB1_red(img, W, H) ==
  LET need_copy == W # img.data_w \/ H # img.data_h
      src == IF need_copy THEN Fl_RGB_Image_copy(img, W, H) ELSE img
      ld == IF src.ld = 0 THEN 3 * W ELSE src.ld
  IN  [data_w |-> W, data_h |-> H, d |-> 1, ld |-> 0,
       array |-> [k \in 1..(W * H) |->
                    src.array[((k - 1) \div W) * ld + 3 * ((k - 1) % W) + 1]]]

\* Fl_Image_Surface_Driver::RGB3_to_RGB1(rgb3, W, H): the depth-1 image returned
RGB3_to_RGB1(img, W, H) ==
  LET need_copy == W # img.data_w \/ H # img.data_h
      src == IF need_copy THEN Fl_RGB_Image_copy(img, W, H) ELSE img
      ld == IF src.ld = 0 THEN 3 * W ELSE src.ld
  IN  [data_w |-> W, data_h |-> H, d |-> 1, ld |-> 0,
       array |-> [k \in 1..(W * H) |->
                    LET i == (k - 1) \div W
                        j == (k - 1) % W
                        alpha == i * ld + 3 * j
                    IN  (src.array[alpha + 1] + src.array[alpha + 2] + src.array[alpha + 3]) \div 3]]

\* the calls: each input is used for one call
Fl_Image_Surface_Driver_copy_with_mask ==
  /\ last.op = "init"
  /\ mask # NoRGB
  /\ dib_dst' = copy_with_mask(mask, dib_dst, dib_src, line_size, bottom_to_top)
  /\ last' = Op("copy_with_mask", NULL, -1, 0, NoImg)
  /\ UNCHANGED <<registry, heap, activation, scale, mask, dib_src, line_size, bottom_to_top, reducer, masking>>

Fl_Image_Surface_Driver_RGB3_to_RGB1 ==
  /\ last.op = "init"
  /\ rgb3 # NoRGB
  /\ rgb1' = RGB3_to_RGB1(rgb3, target[1], target[2])
  /\ last' = Op("RGB3_to_RGB1", NULL, -1, 0, NoImg)
  /\ UNCHANGED <<registry, heap, activation, scale, compositor, rgb3, target, masking>>

\* ------------------------------------------------------------------ masking
\* The driver's mask(): the mask image is reduced to one byte per pixel of the
\* surface, and the surface's pixels at that moment are kept as the background.
driver_mask(M, pm, pw, ph) == [mask |-> RGB3_to_RGB1(M, pw, ph), background |-> pm]

\* The driver's pixels when they are next read out: what was drawn since mask()
\* is mixed into the background through the mask, once.
driver_composite(sd, pm, pw) ==
  IF sd = NoShape THEN pm ELSE copy_with_mask(sd.mask, sd.background, pm, 3 * pw, FALSE)

\* the pixmap of pw x ph pixels filled with the colour rgb
Filled(rgb, pw, ph) == [k \in 1..(3 * pw * ph) |-> rgb[((k - 1) % 3) + 1]]

\* Fl_Image_Surface::mask(mask), the surface not being the current one and no
\* mask pending
Fl_Image_Surface_mask(s, M) ==
  LET drv == drivers[platform_surface[s]]
      sd == driver_mask(M, pixmap, drv.pw, drv.ph)
  IN  /\ ~is_current(Heap, Act, s)
      /\ shape_data_ = NoShape
      /\ shape_data_' = sd
      /\ rgb3' = M
      /\ target' = <<drv.pw, drv.ph>>
      /\ rgb1' = sd.mask
      /\ last' = Op("mask", s, -1, 0, NoImg)
      /\ UNCHANGED <<registry, heap, activation, scale, compositor, pixmap>>

\* Fl_Image_Surface::image() with the pixels it returns; the mask, if one was
\* pending, is used up and freed
Fl_Image_Surface_image_pixels(s) ==
  LET R == image(Heap, Act, s)
      drv == drivers[platform_surface[s]]
      pm == driver_composite(shape_data_, pixmap, drv.pw)
  IN  /\ surface_' = R.A.surface_
      /\ surface_stack' = R.A.surface_stack
      /\ pixmap' = pm
      /\ shape_data_' = NoShape
      /\ rgb3' = NoRGB
      /\ target' = <<0, 0>>
      /\ rgb1' = NoRGB
      /\ last' = Op("image", s, -1, 0, [R.img EXCEPT !.pix = pm])
      /\ UNCHANGED <<registry, heap, scale, compositor>>

\* drawing calls on the current surface: a filled rectangle over all of it, and
\* one point
fl_rectf_pixels(s, rgb) ==
  LET drv == drivers[platform_surface[s]]
  IN  /\ is_current(Heap, Act, s)
      /\ pixmap' = Filled(rgb, drv.pw, drv.ph)
      /\ pixmap' # pixmap
      /\ last' = Op("fl_rectf", s, -1, 0, NoImg)
      /\ UNCHANGED <<registry, heap, activation, scale, compositor, reducer, shape_data_>>

fl_point(s, x, rgb) ==
  /\ is_current(Heap, Act, s)
  /\ pixmap' = [k \in 1..Len(pixmap) |->
                  IF (k - 1) \div 3 = x THEN rgb[((k - 1) % 3) + 1] ELSE pixmap[k]]
  /\ pixmap' # pixmap
  /\ last' = Op("fl_point", s, -1, 0, NoImg)
  /\ UNCHANGED <<registry, heap, activation, scale, compositor, reducer, shape_data_>>

\* no surface exists, the display is the drawing surface
InitSurfaces ==
  /\ offscreen_api_surface = <<>>
  /\ count_offscreens = 0
  /\ max = 0
  /\ platform_surface = [s \in SurfIds |-> NULL]
  /\ drivers = [d \in DrvIds |-> NoDriver]
  /\ buf = [h \in Handles |-> Free]
  /\ surface_ = Display
  /\ surface_stack = <<>>
  /\ last = Op("init", NULL, -1, 0, NoImg)

NoCompositor ==
  /\ mask = NoRGB
  /\ dib_dst = <<>>
  /\ dib_src = <<>>
  /\ line_size = 0
  /\ bottom_to_top = FALSE

NoReducer ==
  /\ rgb3 = NoRGB
  /\ target = <<0, 0>>
  /\ rgb1 = NoRGB

NoMasking ==
  /\ pixmap = <<>>
  /\ shape_data_ = NoShape

Init ==
  /\ InitSurfaces
  /\ scale \in Scales
  /\ NoCompositor
  /\ NoReducer
  /\ NoMasking

NextOffscreen ==
  \/ \E wh \in Sizes, s \in FreeSurf, d \in FreeDrvIn(drivers), fresh \in FreeHandleIn(buf), c \in Colors :
       fl_create_offscreen(wh[1], wh[2], s, d, fresh, c)
  \/ \E ctx \in {0} \cup Handles : fl_delete_offscreen(ctx)
  \/ \E ctx \in {0} \cup Handles : fl_begin_offscreen(ctx)
  \/ fl_end_offscreen
  \/ \E ctx \in {0} \cup Handles :
       \E d \in RescaleDrv(Owner(ctx)), fresh \in RescaleHandles(Owner(ctx)) :
         fl_rescale_offscreen(ctx, d, fresh)
  \/ \E c \in Colors : fl_rectf(c)
  \/ \E f \in Scales : set_scale(f)

NextSurface ==
  \/ \E wh \in Sizes, high_res \in {0, 1}, off \in {0} \cup CallerBuffers,
        s \in FreeSurf, d \in FreeDrvIn(drivers), fresh \in FreeHandleIn(buf), c \in Colors :
       new_Fl_Image_Surface(wh[1], wh[2], high_res, off, s, d, fresh, c)
  \/ \E s \in Direct : delete_Fl_Image_Surface(s)
  \/ \E s \in Direct : Fl_Image_Surface_image(s)
  \/ \E s \in Direct : \E d \in RescaleDrv(s), fresh \in RescaleHandles(s) :
       Fl_Image_Surface_rescale(s, d, fresh)
  \/ \E s \in Direct : Fl_Surface_Device_push_current(s)
  \/ fl_end_offscreen
  \/ \E c \in Colors : fl_rectf(c)
  \/ \E f \in Scales : set_scale(f)

NextBorrowed ==
  \/ \E wh \in Sizes, high_res \in {1}, off \in {0} \cup CallerBuffers,
        s \in FreeSurf, d \in FreeDrvIn(drivers), fresh \in FreeHandleIn(buf), c \in {0} :
       new_Fl_Image_Surface(wh[1], wh[2], high_res, off, s, d, fresh, c)
  \/ \E s \in Direct : delete_Fl_Image_Surface(s)
  \/ \E s \in Direct : Fl_Image_Surface_image(s)
  \/ \E s \in Direct : \E d \in RescaleDrv(s), fresh \in RescaleHandles(s) :
       Fl_Image_Surface_rescale(s, d, fresh)
  \/ \E s \in Direct : Fl_Image_Surface_get_offscreen_before_delete_(s)
  \/ \E s \in Direct : Fl_Surface_Device_push_current(s)
  \/ fl_end_offscreen
  \/ \E h \in Handles, c \in {0} : create_external(h, c)
  \/ \E h \in Handles : free_external(h)

\* ------------------------------------------------- inputs of the pixel code
\* bytes start, start + step, ... (mod 256)
Ramp(start, step, n) == [k \in 1..n |-> (start + step * (k - 1)) % 256]
Dims == {<<1, 1>>, <<2, 1>>, <<1, 2>>, <<2, 2>>}
Shades == {0, 128, 255}
Targets == Dims \cup {<<3, 2>>}

\* copy_with_mask() is called with a mask of w x h bytes (every byte value for
\* a mask of one pixel) and two buffers of h rows of line_size >= 3 * w bytes
InitCompositor ==
  /\ InitSurfaces
  /\ scale = 1
  /\ NoReducer
  /\ NoMasking
  /\ bottom_to_top \in BOOLEAN
  /\ \E wh \in Dims, pad \in {0, 2}, d0 \in {0, 128, 250}, s0 \in {5, 255} :
       /\ mask \in {[data_w |-> wh[1], data_h |-> wh[2], d |-> 1, ld |-> 0, array |-> a] :
                      a \in [1..(wh[1] * wh[2]) -> IF wh = <<1, 1>> THEN 0..255 ELSE Shades]}
       /\ line_size = 3 * wh[1] + pad
       /\ dib_dst = Ramp(d0, 41, wh[2] * (3 * wh[1] + pad))
       /\ dib_src = Ramp(s0, 67, wh[2] * (3 * wh[1] + pad))

\* RGB3_to_RGB1() is called with a depth-3 image, packed or with padded rows,
\* and a size W x H equal to the image's or not
InitReducer ==
  /\ InitSurfaces
  /\ scale = 1
  /\ NoCompositor
  /\ NoMasking
  /\ rgb1 = NoRGB
  /\ target \in Targets
  /\ \E wh \in Dims, pad \in {0, 1, 3}, r0 \in {0, 100, 254} :
       rgb3 = [data_w |-> wh[1], data_h |-> wh[2], d |-> 3,
               ld |-> IF pad = 0 THEN 0 ELSE 3 * wh[1] + pad,
               array |-> Ramp(r0, 29, wh[2] * (3 * wh[1] + pad))]

\* one image surface of 2 x 1 pixels exists, new Fl_Image_Surface(2, 1, 0), its
\* pixels not yet drawn (black or white)
Black == <<0, 0, 0>>
White == <<255, 255, 255>>
Grey == <<128, 128, 128>>
Yellow == <<255, 255, 0>>
Paints == {Black, White, Yellow}
MaskImages ==
  {[data_w |-> 2, data_h |-> 1, d |-> 3, ld |-> 0, array |-> px[1] \o px[2]] :
     px \in [1..2 -> {Black, White, Grey}]}
  \cup {[data_w |-> 1, data_h |-> 1, d |-> 3, ld |-> 0, array |-> Yellow]}

\* the pixmaps a mask is applied to: every pixel has one of the paints
Unmixed == {p[1] \o p[2] : p \in [1..2 -> Paints]}

InitMasking ==
  /\ offscreen_api_surface = <<>>
  /\ count_offscreens = 0
  /\ max = 0
  /\ scale = 1
  /\ platform_surface = [s \in SurfIds |-> IF s = 1 THEN 1 ELSE NULL]
  /\ drivers = [d \in DrvIds |-> IF d = 1 THEN newImageSurfaceDriver(2, 1, 0, 0, 1) ELSE NoDriver]
  /\ buf = [h \in Handles |-> IF h = 1 THEN 0 ELSE Free]
  /\ surface_ = Display
  /\ surface_stack = <<>>
  /\ last = Op("new", 1, -1, 1, NoImg)
  /\ NoCompositor
  /\ NoReducer
  /\ pixmap \in {Filled(Black, 2, 1), Filled(White, 2, 1)}
  /\ shape_data_ = NoShape

NextMasking ==
  \/ \E M \in MaskImages : pixmap \in Unmixed /\ Fl_Image_Surface_mask(1, M)
  \/ Fl_Image_Surface_image_pixels(1)
  \/ \E rgb \in Paints : fl_rectf_pixels(1, rgb)
  \/ \E x \in 0..1, rgb \in Paints : fl_point(1, x, rgb)
  \/ Fl_Surface_Device_push_current(1)
  \/ fl_end_offscreen

NextCompositor == Fl_Image_Surface_Driver_copy_with_mask
NextReducer == Fl_Image_Surface_Driver_RGB3_to_RGB1

\* the fl_XXX_offscreen() functions
SpecOffscreen == Init /\ [][NextOffscreen]_vars
\* the Fl_Image_Surface class used directly, with buffers of its own
SpecSurface == Init /\ [][NextSurface]_vars
\* the class used directly, around buffers of the caller's too
SpecBorrowed == Init /\ [][NextBorrowed]_vars
\* the pixel code: the compositor and the luminance reducer
SpecCompositor == InitCompositor /\ [][NextCompositor]_vars
SpecReducer == InitReducer /\ [][NextReducer]_vars
\* one image surface that is drawn to, masked and read out
SpecMasking == InitMasking /\ [][NextMasking]_vars

\* ------------------------------------------------------------------ claims
NullSlots == {i \in 0..(count_offscreens - 1) : offscreen_api_surface[i] = NULL}
LiveSlots == {i \in 0..(count_offscreens - 1) : offscreen_api_surface[i] # NULL}
OwnersIn(T, n, H, ctx) == {i \in 0..(n - 1) : T[i] # NULL /\ offscreen(H, T[i]) = ctx}
Owners(ctx) == OwnersIn(offscreen_api_surface, count_offscreens, Heap, ctx)
OwnersAfter(ctx) == OwnersIn(offscreen_api_surface', count_offscreens', Heap', ctx)
Range(q) == {q[k] : k \in 1..Len(q)}

\* C1: fl_create_offscreen stores the new surface in the lowest null slot below
\* count_offscreens when there is one, and count_offscreens then does not grow;
\* only when no slot is null is the surface appended at index count_offscreens,
\* which grows by exactly 1.
C1_SlotReuse ==
  [][last'.op = "fl_create_offscreen" =>
       IF NullSlots # {}
       THEN /\ last'.rank \in NullSlots
            /\ \A k \in NullSlots : last'.rank <= k
            /\ count_offscreens' = count_offscreens
            /\ offscreen_api_surface'[last'.rank] = last'.obj
            /\ platform_surface'[last'.obj] # NULL
       ELSE /\ last'.rank = count_offscreens
            /\ count_offscreens' = count_offscreens + 1
            /\ offscreen_api_surface'[last'.rank] = last'.obj
            /\ platform_surface'[last'.obj] # NULL]_vars

\* two surfaces were created, the one in slot 0 deleted, and the next creation
\* took slot 0 again
C1_Witness ==
  /\ last.op = "fl_create_offscreen"
  /\ last.rank = 0
  /\ count_offscreens = 2
  /\ offscreen_api_surface[1] # NULL

\* C2 (as claimed): the handle fl_create_offscreen returned identifies the
\* surface made by that call, in its slot, after any later call but the
\* fl_delete_offscreen that destroys it.  Stated for the call that follows the
\* creation.
C2_Original ==
  [][(/\ last.op = "fl_create_offscreen"
      /\ ~(last'.op = "fl_delete_offscreen" /\ last'.rank = last.rank))
       => /\ OwnersAfter(last.ret) = {last.rank}
          /\ offscreen_api_surface'[last.rank] = last.obj
          /\ platform_surface'[last.obj] # NULL]_vars

\* C2 (amended): a handle that identifies a surface of the table identifies that
\* surface alone, in the same slot, after every call except the
\* fl_delete_offscreen that destroys the surface and the fl_rescale_offscreen
\* that rescales it; after that rescale the value written back identifies it.
C2_HandleStable ==
  [][\A h \in Handles : \A i \in Owners(h) :
       IF last'.op = "fl_delete_offscreen" /\ last'.rank = i
       THEN TRUE
       ELSE IF last'.op = "fl_rescale_offscreen" /\ last'.rank = i
       THEN /\ OwnersAfter(last'.ret) = {i}
            /\ offscreen_api_surface'[i] = offscreen_api_surface[i]
            /\ platform_surface'[offscreen_api_surface[i]] # NULL
       ELSE /\ Owners(h) = {i}
            /\ OwnersAfter(h) = {i}
            /\ offscreen_api_surface'[i] = offscreen_api_surface[i]
            /\ platform_surface'[offscreen_api_surface[i]] # NULL]_vars

\* the surface in slot 0 keeps its handle while the surface in slot 1 is rescaled
C2_Witness ==
  /\ last.op = "fl_rescale_offscreen"
  /\ last.rank = 1
  /\ offscreen_api_surface[0] # NULL
  /\ Owners(offscreen(Heap, offscreen_api_surface[0])) = {0}

NotOwned(ctx) ==
  \A i \in 0..(count_offscreens - 1) :
    offscreen_api_surface[i] = NULL \/ offscreen(Heap, offscreen_api_surface[i]) # ctx

\* C3: fl_delete_offscreen(h), h not null and owned by the surface of a live
\* slot i, destroys that surface (its driver and its buffer are freed) and sets
\* slot i to null; every other slot and count_offscreens are unchanged, and the
\* next slot search returns a null slot no higher than i.
C3_DeleteFrame ==
  [][\A ctx \in Handles : \A i \in Owners(ctx) :
       (last'.op = "fl_delete_offscreen" /\ fl_delete_offscreen(ctx)) =>
         /\ platform_surface'[offscreen_api_surface[i]] = NULL
         /\ drivers'[platform_surface[offscreen_api_surface[i]]] = NoDriver
         /\ buf'[ctx] = Free
         /\ offscreen_api_surface'[i] = NULL
         /\ \A j \in (DOMAIN offscreen_api_surface) \ {i} :
              offscreen_api_surface'[j] = offscreen_api_surface[j]
         /\ DOMAIN offscreen_api_surface' = DOMAIN offscreen_api_surface
         /\ count_offscreens' = count_offscreens
         /\ max' = max
         /\ find_slot'.rank <= i
         /\ offscreen_api_surface'[find_slot'.rank] = NULL]_vars

\* of two live surfaces the one in slot 0 was deleted: slot 0 is null, slot 1 is
\* as it was
C3_Witness ==
  /\ last.op = "fl_delete_offscreen"
  /\ last.rank = 0
  /\ count_offscreens = 2
  /\ offscreen_api_surface[0] = NULL
  /\ offscreen_api_surface[1] # NULL
  /\ platform_surface[offscreen_api_surface[1]] # NULL

\* C4: fl_delete_offscreen(h) changes nothing when h is the null handle or no
\* live slot's surface has buffer handle h: the table, count_offscreens, every
\* surface and buffer and the activation stack are as before.
C4_DeleteNoop ==
  [][\A ctx \in {0} \cup Handles :
       (last'.op = "fl_delete_offscreen" /\ fl_delete_offscreen(ctx) /\ (ctx = 0 \/ NotOwned(ctx)))
         => UNCHANGED <<offscreen_api_surface, count_offscreens, max,
                        platform_surface, drivers, buf, surface_, surface_stack>>]_vars

\* a delete that found no owner, made while a surface of the table is live and
\* is the current drawing surface
C4_Witness ==
  /\ last.op = "fl_delete_offscreen"
  /\ last.rank = -1
  /\ LiveSlots # {}
  /\ Len(surface_stack) > 0
  /\ \E i \in LiveSlots : surface_ = platform_surface[offscreen_api_surface[i]]

\* C5: fl_begin_offscreen(h) makes the surface of the table whose buffer handle
\* is h the current drawing surface, pushed above the entries already on the
\* activation stack; when no live slot owns h, the activation stack and the
\* table are unchanged.
C5_Begin ==
  [][\A ctx \in {0} \cup Handles :
       (last'.op = "fl_begin_offscreen" /\ fl_begin_offscreen(ctx)) =>
         /\ UNCHANGED <<offscreen_api_surface, count_offscreens, max, platform_surface, drivers, buf>>
         /\ IF NotOwned(ctx)
            THEN UNCHANGED <<surface_, surface_stack>>
            ELSE /\ \E i \in Owners(ctx) : surface_' = platform_surface[offscreen_api_surface[i]]
                 /\ surface_stack' = Append(surface_stack, surface_)]_vars

\* a nested begin: the second surface is current, the first one and the display
\* are beneath it
C5_Witness ==
  /\ last.op = "fl_begin_offscreen"
  /\ last.rank = 1
  /\ surface_ = platform_surface[offscreen_api_surface[1]]
  /\ Len(surface_stack) = 2
  /\ surface_stack[1] = Display
  /\ surface_stack[2] = platform_surface[offscreen_api_surface[0]]

\* C6: fl_rescale_offscreen(ctx), with a live slot i owning ctx, rescales the
\* surface of slot i (its driver is made anew for the same width and height, at
\* the current scale factor) and writes that surface's buffer handle after the
\* rescale back into ctx; the surface stays in slot i, the table and
\* count_offscreens are unchanged, and a lookup of the value written back finds
\* slot i.  With no live slot owning ctx, ctx and all the state are unchanged.
C6_Rescale ==
  [][\A ctx \in {0} \cup Handles :
       (/\ last'.op = "fl_rescale_offscreen"
        /\ \E d \in RescaleDrv(Owner(ctx)), fresh \in RescaleHandles(Owner(ctx)) :
             fl_rescale_offscreen(ctx, d, fresh))
       => IF NotOwned(ctx)
          THEN /\ last'.ret = ctx
               /\ UNCHANGED <<offscreen_api_surface, count_offscreens, max,
                              platform_surface, drivers, buf, surface_, surface_stack>>
          ELSE \E i \in Owners(ctx) :
                 LET s == offscreen_api_surface[i]
                 IN  /\ UNCHANGED <<offscreen_api_surface, count_offscreens, max>>
                     /\ platform_surface'[s] # NULL
                     /\ last'.ret = offscreen(Heap', s)
                     /\ last'.ret # 0
                     /\ OwnersAfter(last'.ret) = {i}
                     /\ \E h \in Handles : h = last'.ret /\ lookup(h)' = i
                     /\ drivers'[platform_surface'[s]].width = drivers[platform_surface[s]].width
                     /\ drivers'[platform_surface'[s]].height = drivers[platform_surface[s]].height
                     /\ drivers'[platform_surface'[s]].pw = drivers[platform_surface[s]].width * scale
                     /\ drivers'[platform_surface'[s]].ph = drivers[platform_surface[s]].height * scale]_vars

\* the surface of slot 1 was rescaled while slot 0 is live; the handle written
\* back finds slot 1
C6_Witness ==
  /\ last.op = "fl_rescale_offscreen"
  /\ last.rank = 1
  /\ lookup(last.ret) = 1
  /\ offscreen_api_surface[0] # NULL
  /\ drivers[platform_surface[offscreen_api_surface[1]]].pw = 2 * drivers[platform_surface[offscreen_api_surface[1]]].width

\* C7: Fl_Image_Surface::image() leaves the activation stack as it found it,
\* whether or not the surface was the current drawing surface, and it leaves
\* the surface's driver (its sizes) and pixel buffer as they were.
C7_ImageFrame ==
  [][last'.op = "image" =>
       /\ UNCHANGED <<surface_, surface_stack>>
       /\ UNCHANGED <<platform_surface, drivers, buf>>
       /\ last'.img.pix = buf[offscreen(Heap, last'.obj)]]_vars

\* image() of a surface that was not current, taken while another image surface
\* is the current one: that other surface is still current
C7_Witness ==
  /\ last.op = "image"
  /\ ~last.cur
  /\ surface_ \in DrvIds
  /\ drivers[surface_] # NoDriver
  /\ surface_ # platform_surface[last.obj]
  /\ Len(surface_stack) > 0

\* C8 (as claimed): after a surface that is the current drawing surface is
\* destroyed, by delete or by fl_delete_offscreen, it is not the current
\* surface and the activation stack holds no reference to it.
C8_Original ==
  [][(last'.op \in {"fl_delete_offscreen", "delete"} /\ last'.obj # NULL /\ last'.cur) =>
       LET d == platform_surface[last'.obj]
       IN  /\ surface_' # d
           /\ d \notin Range(surface_stack')]_vars

\* C8 (amended): destroying a surface that is the current drawing surface and
\* does not also occur beneath the top of the activation stack frees its driver
\* and the buffer it owns and leaves it neither the current surface nor
\* referenced by the stack.
C8_DestroyActive ==
  [][(last'.op \in {"fl_delete_offscreen", "delete"} /\ last'.obj # NULL /\ last'.cur) =>
       LET d == platform_surface[last'.obj]
       IN  /\ drivers'[d] = NoDriver
           /\ platform_surface'[last'.obj] = NULL
           /\ (~drivers[d].external => buf'[drivers[d].offscreen] = Free)
           /\ (d \notin Range(surface_stack) =>
                 surface_' # d /\ d \notin Range(surface_stack'))]_vars

\* a surface was destroyed while it was current, having been activated once:
\* the display is the drawing surface again and nothing is left on the stack
C8_Witness ==
  /\ last.op \in {"fl_delete_offscreen", "delete"}
  /\ last.obj # NULL
  /\ last.cur
  /\ surface_ = Display
  /\ surface_stack = <<>>

\* C9: rescale() of a surface that is not current and owns its buffer leaves
\* the width and height printable_rect() reports unchanged, and the pixel width
\* and height of the buffer made anew are those of that logical size at the
\* scale factor current when rescale() is called.
C9_RescaleSizes ==
  [][(/\ last'.op = "rescale"
      /\ ~last'.cur
      /\ ~drivers[platform_surface[last'.obj]].external) =>
       LET s == last'.obj
           before == drivers[platform_surface[s]]
           after == drivers'[platform_surface'[s]]
       IN  /\ printable_rect(Heap', s) = printable_rect(Heap, s)
           /\ after.width = before.width
           /\ after.height = before.height
           /\ after.pw = before.width * scale
           /\ after.ph = before.height * scale
           /\ ~after.external]_vars

\* a rescale() at scale factor 2 of a surface that was not current
C9_Witness ==
  /\ last.op = "rescale"
  /\ ~last.cur
  /\ scale = 2
  /\ drivers[platform_surface[last.obj]].width = 2
  /\ drivers[platform_surface[last.obj]].pw = 4
  /\ drivers[platform_surface[last.obj]].ph = 6

\* C10 (as claimed): the image image() returns reports the surface's physical
\* pixel dimensions as its size.
C10_Original ==
  last.op = "image" =>
    /\ last.img.w = drivers[platform_surface[last.obj]].pw
    /\ last.img.h = drivers[platform_surface[last.obj]].ph

\* C10 (amended): the image image() returns holds the surface's pixels one for
\* one (its data size is the physical pixel size, after rescale() the new one),
\* and the size it reports is the surface's logical width and height.
C10_ImageSize ==
  last.op = "image" =>
    /\ last.img.data_w = drivers[platform_surface[last.obj]].pw
    /\ last.img.data_h = drivers[platform_surface[last.obj]].ph
    /\ last.img.w = drivers[platform_surface[last.obj]].width
    /\ last.img.h = drivers[platform_surface[last.obj]].height
    /\ last.img.w = printable_rect(Heap, last.obj).w
    /\ last.img.h = printable_rect(Heap, last.obj).h

\* the image of a high-resolution surface at scale factor 2: twice as many
\* pixels each way as the size it reports
C10_Witness ==
  /\ last.op = "image"
  /\ scale = 2
  /\ last.img.w = 2
  /\ last.img.h = 3
  /\ last.img.data_w = 4
  /\ last.img.data_h = 6

\* C11: copy_with_mask() updates dib_dst in place: for every pixel of the mask's
\* w x h area and each of its 3 channels, with b and f the destination and
\* source bytes and a the pixel's mask byte, the new destination byte is
\* (b*(255-a) + f*a) / 255 truncated, within 0..255; a = 0 leaves b, a = 255
\* gives f.  The source buffer and the mask are not modified.
C11_Blend ==
  [][last'.op = "copy_with_mask" =>
       /\ UNCHANGED <<dib_src, mask>>
       /\ Len(dib_dst') = Len(dib_dst)
       /\ \A i \in 0..(mask.data_h - 1), j \in 0..(mask.data_w - 1), c \in 0..2 :
            LET k == i * line_size + 3 * j + c + 1
                a == mask.array[(IF bottom_to_top THEN mask.data_h - 1 - i ELSE i) * mask.data_w + j + 1]
                b == dib_dst[k]
                f == dib_src[k]
            IN  /\ dib_dst'[k] = (b * (255 - a) + f * a) \div 255
                /\ dib_dst'[k] \in 0..255
                /\ (a = 0 => dib_dst'[k] = b)
                /\ (a = 255 => dib_dst'[k] = f)]_vars

\* a 2 x 2 mask with a grey, a black and a white pixel was applied
C11_Witness ==
  /\ last.op = "copy_with_mask"
  /\ mask.data_w = 2
  /\ mask.data_h = 2
  /\ mask.array[1] = 128
  /\ mask.array[2] = 0
  /\ mask.array[4] = 255
  /\ dib_dst[10] = dib_src[10]
  /\ dib_dst[4] # dib_src[4]

\* the mask with its rows in the opposite order
ReverseRows(m) ==
  [m EXCEPT !.array = [k \in 1..(m.data_w * m.data_h) |->
                         m.array[(m.data_h - 1 - ((k - 1) \div m.data_w)) * m.data_w
                                 + ((k - 1) % m.data_w) + 1]]]

\* C12: copy_with_mask() with bottom_to_top = true and mask M leaves the same
\* destination as with bottom_to_top = false and M's rows reversed (and the
\* other way round): only the mask's rows are walked backwards.
C12_BottomToTop ==
  [][last'.op = "copy_with_mask" =>
       dib_dst' = copy_with_mask(ReverseRows(mask), dib_dst, dib_src, line_size, ~bottom_to_top)]_vars

\* a bottom-to-top call with a mask of two rows that differ
C12_Witness ==
  /\ last.op = "copy_with_mask"
  /\ bottom_to_top
  /\ mask.data_h = 2
  /\ mask.data_w = 2
  /\ mask.array[1] = 0
  /\ mask.array[3] = 255
  /\ dib_dst[1] = dib_src[1]
  /\ dib_dst[line_size + 1] # dib_src[line_size + 1]

\* byte c of the pixel in column x of row y of a depth-3 image
SourceByte(img, x, y, c) ==
  img.array[y * (IF img.ld = 0 THEN 3 * img.data_w ELSE img.ld) + 3 * x + c + 1]

\* C13: RGB3_to_RGB1(rgb3, W, H) returns a new depth-1 image of exactly W x H
\* pixels whatever the source's size; each of its pixels is (R+G+B)/3, floored,
\* of the corresponding source pixel (the nearest one when the source is
\* resampled), read with the source's row stride, 3 * data_w when it reports 0;
\* the caller's image is not modified.
C13_Reduce ==
  [][last'.op = "RGB3_to_RGB1" =>
       LET W == target[1]
           H == target[2]
       IN  /\ rgb3' = rgb3
           /\ rgb1'.data_w = W
           /\ rgb1'.data_h = H
           /\ rgb1'.d = 1
           /\ Len(rgb1'.array) = W * H
           /\ \A x \in 0..(W - 1), y \in 0..(H - 1) :
                LET sx == (x * rgb3.data_w) \div W
                    sy == (y * rgb3.data_h) \div H
                IN  rgb1'.array[y * W + x + 1] =
                      (SourceByte(rgb3, sx, sy, 0) + SourceByte(rgb3, sx, sy, 1)
                       + SourceByte(rgb3, sx, sy, 2)) \div 3]_vars

\* a 2 x 2 source with padded rows was reduced to 3 x 2 pixels
C13_Witness ==
  /\ last.op = "RGB3_to_RGB1"
  /\ rgb3.data_w = 2
  /\ rgb3.data_h = 2
  /\ rgb3.ld = 7
  /\ target = <<3, 2>>
  /\ rgb1.data_w = 3
  /\ rgb1.data_h = 2
  /\ Len(rgb1.array) = 6

C15_DestroyBuffer ==
  [][last'.op = "delete" =>
       LET d == platform_surface[last'.obj]
           h == drivers[d].offscreen
       IN  /\ platform_surface'[last'.obj] = NULL
           /\ drivers'[d] = NoDriver
           /\ \A g \in Handles : g # h => buf'[g] = buf[g]
           /\ (h # 0 /\ drivers[d].external => buf[h] # Free /\ buf'[h] = buf[h])
           /\ (h # 0 /\ ~drivers[d].external => buf[h] # Free /\ buf'[h] = Free)]_vars

\* a surface was destroyed and the buffer it had is still allocated, wrapped by
\* no surface: the caller's, which it can go on using
C15_Witness ==
  /\ last.op = "delete"
  /\ last.ret \in Handles
  /\ buf[last.ret] # Free
  /\ ~Wrapped(last.ret)

\* C16: in every state of the fl_XXX_offscreen() table, the slots that are not
\* null hold surfaces that are alive, no two of them hold the same surface, and
\* no two hold surfaces with the same buffer handle, so the lookup of a handle
\* matches at most one slot.
C16_OneSlot ==
  /\ \A i \in LiveSlots :
       /\ offscreen_api_surface[i] \in SurfIds
       /\ platform_surface[offscreen_api_surface[i]] # NULL
       /\ offscreen(Heap, offscreen_api_surface[i]) # 0
  /\ \A i \in LiveSlots, j \in LiveSlots :
       i # j =>
         /\ offscreen_api_surface[i] # offscreen_api_surface[j]
         /\ offscreen(Heap, offscreen_api_surface[i]) # offscreen(Heap, offscreen_api_surface[j])
  /\ \A ctx \in Handles : Cardinality(Owners(ctx)) <= 1
  /\ \A s \in SurfIds :
       platform_surface[s] # NULL =>
         Cardinality({i \in LiveSlots : offscreen_api_surface[i] = s}) = 1

\* two live slots, the surface of the first one rescaled after the second was
\* created: its buffer handle is a new one, different from the second's
C16_Witness ==
  /\ count_offscreens = 2
  /\ LiveSlots = {0, 1}
  /\ last.op = "fl_rescale_offscreen"
  /\ last.rank = 0
  /\ offscreen(Heap, offscreen_api_surface[0]) = 3
  /\ offscreen(Heap, offscreen_api_surface[1]) = 2

\* C17: rescale() of a surface that is not the current one leaves the current
\* surface and the stack of saved surfaces as they were: the new driver is
\* pushed once and popped once, the image being drawn in between.
C17_RescaleFrame ==
  [][last'.op = "rescale" /\ ~last'.cur =>
       /\ UNCHANGED <<surface_, surface_stack>>
       /\ buf'[offscreen(Heap', last'.obj)] = buf[offscreen(Heap, last'.obj)]]_vars

\* a surface was rescaled while another image surface was the current one,
\* which still is
C17_Witness ==
  /\ last.op = "rescale"
  /\ ~last.cur
  /\ surface_ \in DrvIds
  /\ drivers[surface_] # NoDriver
  /\ surface_ # platform_surface[last.obj]
  /\ surface_stack = <<Display>>

\* surface s is alive and wraps a buffer of the caller's
Borrowed(s) ==
  /\ platform_surface[s] # NULL
  /\ drivers[platform_surface[s]].external
  /\ drivers[platform_surface[s]].offscreen # 0

\* C18 (as claimed): whatever is done with a surface constructed around a
\* buffer of the caller's, rescale() included, as long as the surface lives
\* its buffer handle is the caller's and it is in borrowed mode.
C18_Original ==
  [][\A s \in SurfIds :
       Borrowed(s) /\ platform_surface'[s] # NULL =>
         /\ drivers'[platform_surface'[s]].external
         /\ offscreen(Heap', s) = offscreen(Heap, s)]_vars

\* C18 (amended): the caller's buffer is never released or replaced by the
\* surface, and the surface keeps the caller's handle in borrowed mode, through
\* every operation but two: rescale() gives the surface a driver that owns a
\* new buffer (the caller's is left as it was), and
\* get_offscreen_before_delete_() leaves the surface without a buffer.
C18_BorrowedKept ==
  [][\A s \in SurfIds :
       Borrowed(s) =>
         LET h == offscreen(Heap, s)
         IN  /\ buf[h] # Free
             /\ buf'[h] # Free
             /\ (last'.op = "rescale" /\ last'.obj = s =>
                   /\ buf'[h] = buf[h]
                   /\ ~drivers'[platform_surface'[s]].external
                   /\ offscreen(Heap', s) # h
                   /\ offscreen(Heap', s) # 0)
             /\ (last'.op = "get_offscreen_before_delete_" /\ last'.obj = s =>
                   /\ buf'[h] = buf[h]
                   /\ offscreen(Heap', s) = 0)
             /\ (/\ platform_surface'[s] # NULL
                 /\ ~(last'.op \in {"rescale", "get_offscreen_before_delete_"} /\ last'.obj = s)
                 => /\ drivers'[platform_surface'[s]].external
                    /\ offscreen(Heap', s) = h
                    /\ platform_surface'[s] = platform_surface[s])]_vars

\* image() was called on a surface that wraps a buffer of the caller's while
\* it was the current one: it still wraps that buffer
C18_Witness ==
  /\ last.op = "image"
  /\ last.cur
  /\ Borrowed(last.obj)
  /\ buf[offscreen(Heap, last.obj)] # Free
  /\ Len(surface_stack) > 0

\* C19: fl_begin_offscreen(h), h owned by a live surface of the table, saves the
\* current surface on top of the stack; drawing changes neither; and
\* fl_end_offscreen() pops the top entry, whatever it is, and makes it current.
\* So begin, drawing, end leaves the current surface and the stack as they were
\* before the begin.
C19_BeginEnd ==
  [][/\ (last'.op = "fl_begin_offscreen" /\ last'.obj # NULL =>
           /\ Len(surface_stack') = Len(surface_stack) + 1
           /\ surface_stack'[Len(surface_stack')] = surface_
           /\ SubSeq(surface_stack', 1, Len(surface_stack)) = surface_stack
           /\ surface_' = platform_surface[last'.obj]
           /\ pop_current(Act') = Act)
     /\ (last'.op = "fl_rectf" => UNCHANGED <<surface_, surface_stack>>)
     /\ (last'.op = "fl_end_offscreen" =>
           /\ surface_' = surface_stack[Len(surface_stack)]
           /\ surface_stack' = SubSeq(surface_stack, 1, Len(surface_stack) - 1))]_vars

\* after begin for one surface, begin for another and end, the first surface
\* is the current one again and only the display is saved
C19_Witness ==
  /\ last.op = "fl_end_offscreen"
  /\ surface_ \in DrvIds
  /\ drivers[surface_] # NoDriver
  /\ surface_stack = <<Display>>
  /\ LiveSlots = {0, 1}

\* C20: in every state of the fl_XXX_offscreen() table count_offscreens <= max,
\* the table has max slots and those below count_offscreens have been written;
\* count_offscreens never decreases; max changes only by growing by exactly 20,
\* and only in a create that finds no null slot with count_offscreens = max;
\* the slot a create uses is below max.  No slot outside the table is accessed.
C20_Capacity ==
  /\ [](/\ count_offscreens <= max
        /\ max % SlotIncrement = 0
        /\ DOMAIN offscreen_api_surface = 0..(max - 1)
        /\ \A i \in 0..(count_offscreens - 1) : offscreen_api_surface[i] # Uninit)
  /\ [][/\ count_offscreens' >= count_offscreens
        /\ max' \in {max, max + SlotIncrement}
        /\ (max' # max =>
              /\ last'.op = "fl_create_offscreen"
              /\ count_offscreens = max
              /\ NullSlots = {}
              /\ \A i \in 0..(max - 1) : offscreen_api_surface'[i] = offscreen_api_surface[i])
        /\ (last'.op = "fl_create_offscreen" =>
              /\ last'.rank \in 0..(max' - 1)
              /\ last'.rank < count_offscreens'
              /\ (NullSlots = {} => last'.rank = count_offscreens /\ count_offscreens' = count_offscreens + 1)
              /\ (NullSlots # {} => count_offscreens' = count_offscreens /\ max' = max))
        /\ (last'.op \in {"fl_delete_offscreen", "fl_begin_offscreen", "fl_rescale_offscreen"} =>
              last'.rank \in -1..(count_offscreens - 1))]_vars

\* the table has grown to 20 slots and two of them are in use
C20_Witness ==
  /\ max = SlotIncrement
  /\ count_offscreens = 2
  /\ last.op = "fl_create_offscreen"
  /\ last.rank = 1
  /\ offscreen_api_surface[2] = Uninit

Next == NextOffscreen \/ NextSurface
\* the table functions and the class used together
Spec == Init /\ [][Next]_vars
====
